---- MODULE Spec2Model ----
(***************************************************************************)
(* Model of src/app.py: the frozen BScoreWeights dataclass,                *)
(* compute_b_score (validation loop, weighted sum, rounding) and           *)
(* decision_from_score (two-threshold classifier); the helpers             *)
(* sanitize_lines, safe_json_loads and build_formula_table; and the pages  *)
(* and AI actions of run_streamlit_app.                                    *)
(*                                                                         *)
(* Number representation.  A decimal with at most two places (a weight, a  *)
(* threshold, a rounded score) is held as its count of hundredths: 3.2 is  *)
(* 320.  Such a value stands for the double nearest to that decimal, and   *)
(* for these magnitudes the map is injective and order preserving, so ==   *)
(* and >= on the doubles are = and >= on the counts.  The unrounded sum of *)
(* line 71-77 is held in ticks of 1/10000.  Its double differs from the    *)
(* exact sum by the accumulated rounding error of five multiplications and *)
(* four additions (949 of the 3125 valid default-weight sums are inexact,  *)
(* e.g. 1,1,1,1,1 gives 0.9000000000000001).  The model does not pick one  *)
(* error: the sum is the exact value plus any error in -FloatErr..FloatErr *)
(* ticks, which over-approximates the real error (below 1e-13).            *)
(***************************************************************************)
EXTENDS Integers, Sequences, FiniteSets, TLC

VARIABLES
    pc,               \* position of the current compute_b_score call
    args,             \* the five rating arguments of the call, in order
    wparam,           \* the `weights` argument as passed: {} when omitted, {w} when given
    weights,          \* the call's `weights` parameter as bound
    default_weights,  \* the BScoreWeights() default object built at def time
    raw,              \* local `score` before rounding, in ticks
    result,           \* what the call returned or raised
    dcall,            \* the last decision_from_score call and its value
    first,            \* history: the first completed compute_b_score call
    ncalls,           \* history: number of completed compute_b_score calls
    inp,              \* argument(s) of the helper function under evaluation
    out,              \* what the helper returned or raised
    done,             \* whether the helper has been applied to inp
    chapter,          \* the sidebar radio's value for the current script run
    cycle,            \* st.session_state.cycle
    api_key,          \* whether an OpenAI key is configured
    upc,              \* the AI call in flight in a button handler, or "idle"
    status,           \* state of the st.status box of the current AI action
    ailog,            \* the AI calls of the current AI action, in order
    shown,            \* what the last script run put on the page
    local_score       \* Stage B's local_score of the last script run

scoreVars == <<pc, args, wparam, weights, default_weights, raw, result, dcall, first, ncalls>>
helperVars == <<inp, out, done>>
appVars == <<chapter, cycle, api_key, upc, status, ailog, shown, local_score>>

vars == <<pc, args, wparam, weights, default_weights, raw, result, dcall, first, ncalls,
          inp, out, done,
          chapter, cycle, api_key, upc, status, ailog, shown, local_score>>

----------------------------------------------------------------------------
(* Bounds of the model *)

\* integers tried beyond each end of the valid range: MinRating-Probe .. MaxRating+Probe
Probe == 1
\* largest float rounding error of the unrounded sum, in ticks of 1/10000
FloatErr == 1
\* calls counted by the history variable ncalls
MaxCalls == 3
\* scores tried around the two default thresholds, in hundredths either side
Margin == 10
\* distinct contents of a JSON object replied by the AI
MaxTag == 2

----------------------------------------------------------------------------
(* Program constants *)

MinRating == 1
MaxRating == 5
DefaultGoThreshold == 320
DefaultHoldThreshold == 300

\* the parameters of compute_b_score in validation order
RatingNames ==
    <<"company_fit", "cost_stability", "manufacturability",
      "customer_acceptance", "repurchase">>

\* variant: the five weights made to sum to 1.00
BScoreWeightsUnit ==
    [company_fit |-> 20, cost_stability |-> 20, manufacturability |-> 20,
     customer_acceptance |-> 20, repurchase |-> 20]

\* BScoreWeights(): the field defaults, in hundredths
BScoreWeights ==
    [company_fit |-> 20, cost_stability |-> 20, manufacturability |-> 15,
     customer_acceptance |-> 15, repurchase |-> 20]

----------------------------------------------------------------------------
(* Python values passed as ratings *)

PyInt(n) == [t |-> "int", v |-> n]
PyFloat(n) == [t |-> "float", v |-> n]      \* the float n.0
PyTrue == [t |-> "bool", v |-> 1]           \* True: bool subclasses int, True == 1
PyFalse == [t |-> "bool", v |-> 0]          \* False == 0

\* isinstance(v, int): true of int and of its subclass bool
IsInstanceInt(x) == x.t \in {"int", "bool"}

\* the rating values tried: every integer from Probe below to Probe above the
\* valid range, the floats 3.0 and (MaxRating+Probe).0, True and False
RatingValues ==
    {PyInt(n) : n \in (MinRating - Probe)..(MaxRating + Probe)}
        \cup {PyFloat(3), PyFloat(MaxRating + Probe), PyTrue, PyFalse}

AllArgs == [1..5 -> RatingValues]

\* caller-built weight vectors (fields in hundredths, all non-negative): one
\* sums to 1.00 and gives manufacturability no weight, one weighs a single
\* rating only
CustomWeights ==
    {[company_fit |-> 30, cost_stability |-> 25, manufacturability |-> 0,
      customer_acceptance |-> 20, repurchase |-> 25],
     [company_fit |-> 0, cost_stability |-> 0, manufacturability |-> 0,
      customer_acceptance |-> 7, repurchase |-> 0]}

WeightParams == {{}} \cup {{w} : w \in CustomWeights}

----------------------------------------------------------------------------
(* compute_b_score *)

NoResult == [kind |-> "none", v |-> 0, name |-> ""]
Raised(k, n) == [kind |-> k, v |-> 0, name |-> n]
Returned(s) == [kind |-> "score", v |-> s, name |-> ""]

\* variant: the isinstance check left out
RECURSIVE ValidateNoType(_, _)
ValidateNoType(a, i) ==
    IF i > Len(RatingNames) THEN NoResult
    ELSE IF a[i].v < MinRating \/ a[i].v > MaxRating
         THEN Raised("ValueError", RatingNames[i])
    ELSE ValidateNoType(a, i + 1)

\* variant: the range check made before the isinstance check
RECURSIVE ValidateRangeFirst(_, _)
ValidateRangeFirst(a, i) ==
    IF i > Len(RatingNames) THEN NoResult
    ELSE IF a[i].v < MinRating \/ a[i].v > MaxRating
         THEN Raised("ValueError", RatingNames[i])
    ELSE IF ~IsInstanceInt(a[i]) THEN Raised("TypeError", RatingNames[i])
    ELSE ValidateRangeFirst(a, i + 1)

\* variant: the upper limit off by one (v > 6 in place of v > 5)
RECURSIVE ValidateLax(_, _)
ValidateLax(a, i) ==
    IF i > Len(RatingNames) THEN NoResult
    ELSE IF ~IsInstanceInt(a[i]) THEN Raised("TypeError", RatingNames[i])
    ELSE IF a[i].v < MinRating \/ a[i].v > MaxRating + 1
         THEN Raised("ValueError", RatingNames[i])
    ELSE ValidateLax(a, i + 1)

\* variant: the last parameter left out of the list the loop walks
RECURSIVE ValidateFirstFour(_, _)
ValidateFirstFour(a, i) ==
    IF i > Len(RatingNames) - 1 THEN NoResult
    ELSE IF ~IsInstanceInt(a[i]) THEN Raised("TypeError", RatingNames[i])
    ELSE IF a[i].v < MinRating \/ a[i].v > MaxRating
         THEN Raised("ValueError", RatingNames[i])
    ELSE ValidateFirstFour(a, i + 1)

\* the for loop of lines 59-69 from position i on: the first failing check
\* raises, type check before range check; NoResult when the loop completes
RECURSIVE ValidateFrom(_, _)
ValidateFrom(a, i) ==
    IF i > Len(RatingNames) THEN NoResult
    ELSE IF ~IsInstanceInt(a[i]) THEN Raised("TypeError", RatingNames[i])
    ELSE IF a[i].v < MinRating \/ a[i].v > MaxRating
         THEN Raised("ValueError", RatingNames[i])
    ELSE ValidateFrom(a, i + 1)

Validate(a) == ValidateFrom(a, 1)

\* variant: one term of the sum subtracted
ExactSumSignSlip(a, w) ==
    100 * (a[1].v * w.company_fit
           + a[2].v * w.cost_stability
           + a[3].v * w.manufacturability
           + a[4].v * w.customer_acceptance
           - a[5].v * w.repurchase)

\* lines 71-77 in exact arithmetic, in ticks (rating * hundredths * 100)
ExactSum(a, w) ==
    100 * (a[1].v * w.company_fit
           + a[2].v * w.cost_stability
           + a[3].v * w.manufacturability
           + a[4].v * w.customer_acceptance
           + a[5].v * w.repurchase)

\* the doubles the float expression of lines 71-77 can evaluate to
FloatSums(a, w) == {ExactSum(a, w) + e : e \in (0 - FloatErr)..FloatErr}

\* variant: truncation to two places in place of rounding
RoundDown(t) == t \div 100

\* round(x, 2): ticks to the nearest hundredth, an exact tie to the even one
Round2(t) ==
    LET q == t \div 100
        r == t % 100
    IN  IF r < 50 THEN q
        ELSE IF r > 50 THEN q + 1
        ELSE IF q % 2 = 0 THEN q ELSE q + 1

----------------------------------------------------------------------------
(* decision_from_score *)

\* variant: both comparisons strict
decision_strict(score, go_threshold, hold_threshold) ==
    IF score > go_threshold THEN "GO"
    ELSE IF score > hold_threshold THEN "HOLD"
    ELSE "DROP"

\* variant: the last return guarded, so that a score below a hold threshold
\* that lies above the go threshold falls off the end of the function
decision_partial(score, go_threshold, hold_threshold) ==
    IF score >= go_threshold THEN "GO"
    ELSE IF score >= hold_threshold THEN "HOLD"
    ELSE IF hold_threshold <= go_threshold THEN "DROP"
    ELSE "None"

decision_from_score(score, go_threshold, hold_threshold) ==
    IF score >= go_threshold THEN "GO"
    ELSE IF score >= hold_threshold THEN "HOLD"
    ELSE "DROP"

NoDecision == [score |-> 0, go |-> 0, hold |-> 0, out |-> "none"]

\* threshold pairs <<go, hold>> a caller passes: the defaults, a wider band,
\* equal thresholds, and hold above go
ThresholdChoices ==
    {<<DefaultGoThreshold, DefaultHoldThreshold>>, <<350, 250>>,
     <<310, 310>>, <<DefaultHoldThreshold, DefaultGoThreshold>>}

\* scores passed to decision_from_score directly (2.90 .. 3.30 with Margin 10)
ScoreProbes == (DefaultHoldThreshold - Margin)..(DefaultGoThreshold + Margin)

----------------------------------------------------------------------------
(* State machine *)

NoCall == [args |-> <<>>, wparam |-> {}, result |-> NoResult]

ScoreInit ==
    /\ pc = "idle"
    /\ args = <<>>
    /\ wparam = {}
    /\ default_weights = BScoreWeights
    /\ weights = BScoreWeights
    /\ raw = 0
    /\ result = NoResult
    /\ dcall = NoDecision
    /\ first = NoCall
    /\ ncalls = 0

\* no helper under evaluation
HelperIdle ==
    /\ inp = <<>>
    /\ out = <<>>
    /\ done = FALSE

\* JSON values of an AI reply, as far as the program reads them.  A rating
\* of the "scores" object is a JSON number, string, null, true or array.
JsonFloat(tenths) == [t |-> "jsonfloat", v |-> tenths]   \* 5.5 is JsonFloat(55)
JsonNumStr(n) == [t |-> "numstr", v |-> n]               \* the string "4"
JsonStr == [t |-> "str", v |-> 0]                        \* the string "abc"
JsonNull == [t |-> "null", v |-> 0]
JsonList == [t |-> "list", v |-> 0]
Missing == [t |-> "missing", v |-> 0]                    \* key not in the dict

JsonRatings ==
    {PyInt(n) : n \in (MinRating - Probe)..(MaxRating + Probe)}
        \cup {JsonFloat(5), JsonFloat(37), JsonFloat(55), JsonNumStr(4),
              JsonNumStr(7), JsonStr, JsonNull, JsonList, PyTrue}

ScoreKeys == {RatingNames[i] : i \in 1..Len(RatingNames)}
AllMissing == [k \in ScoreKeys |-> Missing]

\* b["scores"]: a dict of ratings, a value that is no dict, or no such key
ScoresDict(f) == [kind |-> "dict", items |-> f]
ScoresNonDict == [kind |-> "nondict", items |-> AllMissing]
NoScores == [kind |-> "missing", items |-> AllMissing]

\* the scores tried: the empty dict, and a dict of 4s with one rating (of
\* weight 0.2 or of weight 0.15) replaced by any JSON rating or left out
VariedKeys == {"company_fit", "manufacturability"}
ScoresChoices ==
    {NoScores, ScoresNonDict, ScoresDict(AllMissing)}
        \cup {ScoresDict([k \in ScoreKeys |-> IF k = n THEN x ELSE PyInt(4)]) :
                n \in VariedKeys, x \in JsonRatings \cup {Missing}}

\* a parsed reply: a JSON object (tag tells two contents apart), the empty
\* object {} (falsy), or a JSON value that is no object (a non-empty array)
JsonObject(tag, s) == [kind |-> "dict", tag |-> tag, scores |-> s]
EmptyObject == [kind |-> "empty", tag |-> 0, scores |-> NoScores]
NonObject == [kind |-> "list", tag |-> 0, scores |-> NoScores]
Absent == [kind |-> "absent", tag |-> 0, scores |-> NoScores]
Pending == [kind |-> "pending", tag |-> 0, scores |-> NoScores]
RaisedReply == [kind |-> "raised", tag |-> 0, scores |-> NoScores]

Tags == 1..MaxTag
PlainReplies == {JsonObject(t, NoScores) : t \in Tags} \cup {EmptyObject, NonObject}
Replies == PlainReplies \cup {JsonObject(1, s) : s \in ScoresChoices}

\* bool(v) and hasattr(v, "get")
Truthy(v) == v.kind \in {"dict", "list"}
IsDict(v) == v.kind \in {"dict", "empty"}

\* st.session_state.cycle after line 426-427 of the first script run: {}
NoCycle ==
    [A |-> Absent, B |-> Absent, C |-> Absent, C_product |-> "absent",
     researcher_formula |-> FALSE, stage0 |-> FALSE]

AppStart ==
    /\ chapter = "00"
    /\ cycle = NoCycle
    /\ upc = "idle"
    /\ status = "none"
    /\ ailog = <<>>
    /\ shown = "none"
    /\ local_score = NoResult

AppIdle == AppStart /\ api_key = FALSE

Init == ScoreInit /\ HelperIdle /\ AppIdle

CallDone == pc \in {"returned", "raised"}

\* history bookkeeping when a call completes with outcome res
Completed(res) ==
    /\ ncalls' = ncalls + 1
    /\ first' = IF ncalls = 0
                THEN [args |-> args', wparam |-> wparam', result |-> res]
                ELSE first

\* compute_b_score(*a, weights=...): parameters bound (an omitted weights
\* takes the shared default object), then the validation loop runs; it
\* either raises or falls through to the sum
Enter(a, wp) ==
    /\ pc = "idle"
    /\ args' = a
    /\ wparam' = wp
    /\ weights' = IF wp = {} THEN default_weights ELSE CHOOSE w \in wp : TRUE
    /\ raw' = 0
    /\ dcall = NoDecision
    /\ dcall' = NoDecision
    /\ result' = Validate(a)
    /\ pc' = IF Validate(a).kind = "none" THEN "validated" ELSE "raised"
    /\ UNCHANGED default_weights

\* variant: the sum scales the weights object it was given in place
SumScaling ==
    /\ pc = "validated"
    /\ raw' \in FloatSums(args, weights)
    /\ pc' = "summed"
    /\ weights' = [weights EXCEPT !.repurchase = 30]
    /\ UNCHANGED <<args, wparam, default_weights, result, dcall, first, ncalls>>
    /\ UNCHANGED <<helperVars, appVars>>

\* lines 71-77: the weighted sum, as a double
Sum ==
    /\ pc = "validated"
    /\ raw' \in FloatSums(args, weights)
    /\ pc' = "summed"
    /\ UNCHANGED <<args, wparam, weights, default_weights, result, dcall, first, ncalls>>
    /\ UNCHANGED <<helperVars, appVars>>

\* variant: the weights object is renormalised in place on the way out
ExitLeaky ==
    /\ pc = "summed"
    /\ result' = Returned(Round2(raw))
    /\ pc' = "returned"
    /\ default_weights' = [weights EXCEPT !.manufacturability = 20,
                                          !.customer_acceptance = 20]
    /\ UNCHANGED <<args, wparam, weights, raw, dcall>>

\* line 78: return round(float(score), 2)
Exit ==
    /\ pc = "summed"
    /\ result' = Returned(Round2(raw))
    /\ pc' = "returned"
    /\ UNCHANGED <<args, wparam, weights, default_weights, raw, dcall>>

\* decision_from_score applied to the score just returned
Classify ==
    /\ pc = "returned"
    /\ dcall = NoDecision
    /\ \E th \in ThresholdChoices :
         dcall' = [score |-> result.v, go |-> th[1], hold |-> th[2],
                   out |-> decision_from_score(result.v, th[1], th[2])]
    /\ UNCHANGED <<pc, args, wparam, weights, default_weights, raw, result, first, ncalls>>
    /\ UNCHANGED <<helperVars, appVars>>

\* decision_from_score called on its own with any score (lines 884-886)
Decide ==
    /\ pc = "idle"
    /\ dcall = NoDecision
    /\ \E s \in ScoreProbes, th \in ThresholdChoices :
         dcall' = [score |-> s, go |-> th[1], hold |-> th[2],
                   out |-> decision_from_score(s, th[1], th[2])]
    /\ UNCHANGED <<pc, args, wparam, weights, default_weights, raw, result, first, ncalls>>
    /\ UNCHANGED <<helperVars, appVars>>

\* the caller is done with the outcome: the frame's locals and the values
\* returned are dropped; only module-level state remains
Discard ==
    /\ \/ CallDone
       \/ pc = "idle" /\ dcall # NoDecision
    /\ pc' = "idle"
    /\ args' = <<>>
    /\ wparam' = {}
    /\ weights' = default_weights
    /\ raw' = 0
    /\ result' = NoResult
    /\ dcall' = NoDecision
    /\ UNCHANGED <<default_weights, first, ncalls>>
    /\ UNCHANGED <<helperVars, appVars>>

Call ==
    /\ pc = "idle"
    /\ dcall = NoDecision
    /\ \E a \in AllArgs, wp \in WeightParams : Enter(a, wp)
    /\ UNCHANGED <<first, ncalls>>
    /\ UNCHANGED <<helperVars, appVars>>

Return == Exit /\ UNCHANGED <<first, ncalls>> /\ UNCHANGED <<helperVars, appVars>>

Next == Call \/ Sum \/ Return \/ Classify \/ Decide \/ Discard

Spec == Init /\ [][Next]_vars

----------------------------------------------------------------------------
(* The same calls with the history of completed calls recorded, over a few  *)
(* argument tuples so that a later call can repeat the inputs of the first. *)

Ints(a, b, c, d, e) == <<PyInt(a), PyInt(b), PyInt(c), PyInt(d), PyInt(e)>>

HistArgs ==
    {Ints(3, 3, 4, 4, 4), Ints(1, 1, 1, 1, 1), Ints(5, 5, 5, 5, 5),
     Ints(0, 3, 3, 3, 3), Ints(3, 3, 3, 3, 6),
     <<PyInt(3), PyInt(3), PyFloat(3), PyInt(3), PyInt(3)>>}

CallH ==
    /\ pc = "idle"
    /\ dcall = NoDecision
    /\ ncalls < MaxCalls
    /\ \E a \in HistArgs, wp \in WeightParams :
         /\ Enter(a, wp)
         /\ IF Validate(a).kind = "none"
            THEN UNCHANGED <<first, ncalls>>
            ELSE Completed(Validate(a))
    /\ UNCHANGED <<helperVars, appVars>>

ReturnH == Exit /\ Completed(result') /\ UNCHANGED <<helperVars, appVars>>

NextH == CallH \/ Sum \/ ReturnH \/ Classify \/ Decide \/ Discard

SpecHist == Init /\ [][NextH]_vars

----------------------------------------------------------------------------
(* sanitize_lines.  A text is a sequence of characters; the characters tried *)
(* are two bullet markers, the blank, the newline and a letter.             *)

\* longest text passed to sanitize_lines
MaxTextLen == 7

Chars == {"-", "*", " ", "\n", "a"}

\* \s of the regex and of str.strip()
IsSpace(c) == c \in {" ", "\n"}
\* the character class [-*•]
IsBullet(c) == c \in {"-", "*"}

RECURSIVE SeqsUpTo(_, _)
SeqsUpTo(S, n) ==
    IF n = 0 THEN {<<>>}
    ELSE LET shorter == SeqsUpTo(S, n - 1)
         IN  shorter \cup {Append(t, c) : t \in {u \in shorter : Len(u) = n - 1}, c \in S}

Texts == SeqsUpTo(Chars, MaxTextLen)

\* str.splitlines(): the pieces between newlines; a text that ends with a
\* newline (or is empty) has no last empty piece
RECURSIVE SplitLines(_)
SplitLines(t) ==
    IF t = <<>> THEN <<>>
    ELSE LET nl == {i \in 1..Len(t) : t[i] = "\n"}
         IN  IF nl = {} THEN <<t>>
             ELSE LET i == CHOOSE j \in nl : \A k \in nl : j <= k
                  IN  <<SubSeq(t, 1, i - 1)>> \o SplitLines(SubSeq(t, i + 1, Len(t)))

\* str.strip()
RECURSIVE Strip(_)
Strip(x) ==
    IF x = <<>> THEN x
    ELSE IF IsSpace(x[1]) THEN Strip(Tail(x))
    ELSE IF IsSpace(x[Len(x)]) THEN Strip(SubSeq(x, 1, Len(x) - 1))
    ELSE x

\* number of leading characters of x that satisfy P
RECURSIVE Run(_, _)
Run(P(_), x) == IF x # <<>> /\ P(x[1]) THEN 1 + Run(P, Tail(x)) ELSE 0

\* variant: the regex ^[-*•]+\s* (the blank after the marker optional)
RemoveBulletLoose(x) ==
    LET b == Run(IsBullet, x)
        w == Run(IsSpace, SubSeq(x, b + 1, Len(x)))
    IN  IF b >= 1 THEN SubSeq(x, b + w + 1, Len(x)) ELSE x

\* re.sub(r"^[-*•]+\s+", "", s): a greedy run of markers and then of blanks
\* at the start is removed, when both are there
RemoveBullet(x) ==
    LET b == Run(IsBullet, x)
        w == Run(IsSpace, SubSeq(x, b + 1, Len(x)))
    IN  IF b >= 1 /\ w >= 1 THEN SubSeq(x, b + w + 1, Len(x)) ELSE x

\* the loop body of lines 97-103 over the lines from position i on
RECURSIVE SanitizeFrom(_, _)
SanitizeFrom(lines, i) ==
    IF i > Len(lines) THEN <<>>
    ELSE LET s1 == Strip(lines[i])
             s2 == Strip(RemoveBullet(s1))
         IN  IF s1 = <<>> THEN SanitizeFrom(lines, i + 1)
             ELSE IF s2 # <<>> THEN <<s2>> \o SanitizeFrom(lines, i + 1)
             ELSE SanitizeFrom(lines, i + 1)

sanitize_lines(text) ==
    IF text = <<>> THEN <<>> ELSE SanitizeFrom(SplitLines(text), 1)

InitLines ==
    /\ ScoreInit /\ AppIdle
    /\ inp \in Texts
    /\ out = <<>>
    /\ done = FALSE

ApplySanitize ==
    /\ ~done
    /\ out' = sanitize_lines(inp)
    /\ done' = TRUE
    /\ UNCHANGED <<inp, scoreVars, appVars>>

SpecLines == InitLines /\ [][ApplySanitize]_vars

----------------------------------------------------------------------------
(* safe_json_loads.  A text is a sequence of tokens separated by blanks: the *)
(* braces, two object members ("a":1 and "a":2) and a word of prose.        *)

\* longest text, in tokens, passed to safe_json_loads
MaxJsonLen == 7

Members == {"m1", "m2"}
JsonTokens == {"{", "}", "x"} \cup Members

JsonTexts == SeqsUpTo(JsonTokens, MaxJsonLen)

JsonValue(ms) == [kind |-> "value", members |-> ms, err |-> "none"]
JsonError(n) == [kind |-> "error", members |-> {}, err |-> n]

\* the documents json.loads accepts over these tokens: {} and {member}
IsObject(t) ==
    /\ Len(t) \in {2, 3}
    /\ t[1] = "{" /\ t[Len(t)] = "}"
    /\ (Len(t) = 3 => t[2] \in Members)

\* json.loads(t), n telling which call of it this is
json_loads(t, n) ==
    IF IsObject(t) THEN JsonValue({t[i] : i \in 2..(Len(t) - 1)}) ELSE JsonError(n)

\* re.search(r"\{[\s\S]*\}", text): <<>> when there is no match, else the
\* span from the first "{" to the last "}" after it (the star is greedy)
BraceSpan(t) ==
    LET lbs == {i \in 1..Len(t) : t[i] = "{"}
    IN  IF lbs = {} THEN <<>>
        ELSE LET i == CHOOSE a \in lbs : \A b \in lbs : a <= b
                 rbs == {j \in (i + 1)..Len(t) : t[j] = "}"}
             IN  IF rbs = {} THEN <<>>
                 ELSE SubSeq(t, i, CHOOSE a \in rbs : \A b \in rbs : a >= b)

\* lines 109-116: the bare raise re-raises the first call's error
safe_json_loads(text) ==
    IF json_loads(text, "first").kind = "value" THEN json_loads(text, "first")
    ELSE IF BraceSpan(text) = <<>> THEN JsonError("first")
    ELSE json_loads(BraceSpan(text), "second")

InitJson ==
    /\ ScoreInit /\ AppIdle
    /\ inp \in JsonTexts
    /\ out = JsonError("none")
    /\ done = FALSE

ApplyJson ==
    /\ ~done
    /\ out' = safe_json_loads(inp)
    /\ done' = TRUE
    /\ UNCHANGED <<inp, scoreVars, appVars>>

SpecJson == InitJson /\ [][ApplyJson]_vars

----------------------------------------------------------------------------
(* build_formula_table.  A formula is a dict from ingredient keys to         *)
(* amounts; an amount is held in thousandths (0.125 is 125).  A table cell   *)
(* is a string of the program, held as the number it prints (in hundredths)  *)
(* and the text around it: "4.00 g/L" is [num |-> 400, text |-> " g/L"].     *)

None == -1

Cell(n, t) == [num |-> n, text |-> t]

\* f"{v:.2f}": the amount printed with two decimals, ties to the even digit.
\* The amounts tried are doubles that are exact (0.125) or far from a tie.
Format2(v) ==
    LET q == v \div 10
        r == v % 10
    IN  IF r < 5 THEN q
        ELSE IF r > 5 THEN q + 1
        ELSE IF q % 2 = 0 THEN q ELSE q + 1

fmt_pct(v) == IF v = None THEN Cell(0, "") ELSE Cell(Format2(v), "%")

fmt_gpl(v) == IF v = None THEN Cell(0, "") ELSE Cell(Format2(v), " g/L")

\* str(v) of a float keeps every digit of the amount
str(v) == Cell(v, "str")

ingredient_schema ==
    << [key |-> "water",         label |-> "purified water",  unit |-> "qs"],
       [key |-> "orange_juice",  label |-> "orange juice",    unit |-> "%"],
       [key |-> "sugar",         label |-> "sugar",           unit |-> "%"],
       [key |-> "glucose_syrup", label |-> "glucose syrup",   unit |-> "%"],
       [key |-> "citric_acid",   label |-> "citric acid",     unit |-> "%"],
       [key |-> "malic_acid",    label |-> "malic acid",      unit |-> "%"],
       [key |-> "flavor",        label |-> "orange flavor",   unit |-> "%"],
       [key |-> "cloud",         label |-> "cloud system",    unit |-> "%"],
       [key |-> "co2",           label |-> "CO2",             unit |-> "g/L"] >>

val_for_lookup_first(unit, key, source) ==
    IF key \notin DOMAIN source THEN Cell(0, "")
    ELSE IF key = "water" THEN Cell(0, "q.s.")
    ELSE IF unit = "%" THEN fmt_pct(source[key])
    ELSE IF unit = "g/L" THEN fmt_gpl(source[key])
    ELSE str(source[key])

val_for(unit, key, source) ==
    IF key = "water" THEN Cell(0, "q.s.")
    ELSE IF key \notin DOMAIN source THEN Cell(0, "")
    ELSE IF unit = "%" THEN fmt_pct(source[key])
    ELSE IF unit = "g/L" THEN fmt_gpl(source[key])
    ELSE str(source[key])

build_formula_table(product_name, standard, researcher, sensory_a, sensory_b) ==
    [i \in 1..Len(ingredient_schema) |->
        LET key == ingredient_schema[i].key
            unit == ingredient_schema[i].unit
        IN  [ingredient   |-> ingredient_schema[i].label,
             product_name |-> IF key = "water" THEN product_name ELSE "",
             standard     |-> val_for(unit, key, standard),
             researcher   |-> val_for(unit, key, researcher),
             sensory_a    |-> val_for(unit, key, sensory_a),
             sensory_b    |-> val_for(unit, key, sensory_b)]]

\* the formulas tried: any subset of a "%" key, the "g/L" key and a "water"
\* key, all holding the same amount
SourceKeys == {"water", "sugar", "co2"}
Amounts == {None, 125, 4000}
Formulas == UNION {[ks -> {v}] : <<ks, v>> \in (SUBSET SourceKeys) \X Amounts}
ProductNames == {"", "orange soda"}

InitTable ==
    /\ ScoreInit
    /\ AppIdle
    /\ inp \in [product_name : ProductNames, standard : Formulas,
                researcher : Formulas, sensory_a : Formulas,
                sensory_b : Formulas]
    /\ out = <<>>
    /\ done = FALSE

ApplyTable ==
    /\ ~done
    /\ out' = build_formula_table(inp.product_name, inp.standard,
                                  inp.researcher, inp.sensory_a, inp.sensory_b)
    /\ done' = TRUE
    /\ UNCHANGED <<inp, scoreVars, appVars>>

SpecTable == InitTable /\ [][ApplyTable]_vars

----------------------------------------------------------------------------
(* run_streamlit_app.  One action is one script run of the page named by the *)
(* sidebar radio, with at most one button pressed; a run that calls the AI   *)
(* is split at each call, whose reply (or exception) is chosen freely.       *)

\* the prompt builders read a and b with .get, which a value that is not a
\* dict does not have (AttributeError)
A_to_B_payload(a) == [raises |-> ~IsDict(a), a_in |-> a, b_in |-> Absent]

B_to_C_payload_swapped(a, b) ==
    [raises |-> ~IsDict(a) \/ ~IsDict(b), a_in |-> b, b_in |-> a]

B_to_C_payload(a, b) ==
    [raises |-> ~IsDict(a) \/ ~IsDict(b), a_in |-> a, b_in |-> b]

C_recommend_from_researcher_payload(a, b) ==
    [raises |-> ~IsDict(a) \/ ~IsDict(b), a_in |-> a, b_in |-> b]

\* a call_openai_json call in flight
AICall(action, persona, p) ==
    [action |-> action, persona |-> persona, a_in |-> p.a_in, b_in |-> p.b_in,
     reply |-> Pending]

\* the call in flight has returned r, or raised
Answered(r) == [ailog EXCEPT ![Len(ailog)].reply = r]

status_update_complete(raised) == "complete"

\* status.update(state=...) at the end of the try block or in the handler
status_update(raised) == IF raised THEN "error" ELSE "complete"

\* the page guards of chapters A, B and C
HasA == Truthy(cycle.A)
HasB == Truthy(cycle.B)
HasA_only == Truthy(cycle.A)
HasAB == Truthy(cycle.A) /\ Truthy(cycle.B)

\* int(x) of a JSON rating
int(x) ==
    IF x.t \in {"int", "bool", "numstr"} THEN [ok |-> TRUE, v |-> x.v]
    ELSE IF x.t = "jsonfloat"
         THEN [ok |-> TRUE, v |-> IF x.v >= 0 THEN x.v \div 10 ELSE 0 - ((0 - x.v) \div 10)]
    ELSE [ok |-> FALSE, v |-> 0]

scores_get_zero(scores, k) ==
    IF scores.items[k] = Missing THEN PyInt(0) ELSE scores.items[k]

\* scores.get(k, 3)
scores_get(scores, k) ==
    IF scores.items[k] = Missing THEN PyInt(3) ELSE scores.items[k]

NoneScore == [kind |-> "None", v |-> 0, name |-> ""]

\* lines 636-645: the possible values of local_score
LocalScores(b) ==
    LET scores == IF b.scores.kind = "missing" THEN ScoresDict(AllMissing) ELSE b.scores
        conv == [i \in 1..Len(RatingNames) |-> int(scores_get(scores, RatingNames[i]))]
        a == [i \in 1..Len(RatingNames) |-> PyInt(conv[i].v)]
    IN  IF scores.kind = "nondict" THEN {NoneScore}
        ELSE IF \E i \in 1..Len(RatingNames) : ~conv[i].ok THEN {NoneScore}
        ELSE IF Validate(a).kind # "none" THEN {NoneScore}
        ELSE {Returned(Round2(t)) : t \in FloatSums(a, BScoreWeights)}

\* lines 775-780: c_json.get on the stored C
TablePage(c) == IF c.kind = "absent" \/ IsDict(c) THEN "C" ELSE "aborted"

\* two of the product types of the selectbox of line 699
ProductTypes == {"carbonated", "functional"}

\* lines 709-738: chapter C stores the product selectors and the sliders
Sliders(c, pt) == [c EXCEPT !.C_product = pt, !.researcher_formula = TRUE]

InitApp == ScoreInit /\ HelperIdle /\ AppStart /\ api_key \in BOOLEAN

Open00 ==
    /\ upc = "idle"
    /\ upc' = "idle"
    /\ chapter' = "00"
    /\ shown' = "stage0"
    /\ status' = "none"
    /\ ailog' = <<>>
    /\ local_score' = NoResult
    /\ UNCHANGED <<cycle, api_key, scoreVars, helperVars>>

PressCycle ==
    /\ upc = "idle"
    /\ chapter = "00"
    /\ chapter' = "00"
    /\ local_score' = NoResult
    /\ IF ~api_key
       THEN /\ shown' = "no key"
            /\ status' = "none"
            /\ ailog' = <<>>
            /\ upc' = "idle"
       ELSE /\ shown' = "status"
            /\ status' = "running"
            /\ ailog' = <<AICall("cycle", "A", [a_in |-> Absent, b_in |-> Absent])>>
            /\ upc' = "cycleA"
    /\ UNCHANGED <<cycle, api_key, scoreVars, helperVars>>

ReplyA ==
    /\ upc = "cycleA"
    /\ \E r \in PlainReplies \cup {RaisedReply} :
         LET p == A_to_B_payload(r)
         IN  IF r = RaisedReply \/ p.raises
             THEN /\ ailog' = Answered(r)
                  /\ status' = status_update(TRUE)
                  /\ upc' = "idle"
                  /\ shown' = "stage0"
             ELSE /\ ailog' = Append(Answered(r), AICall("cycle", "B", p))
                  /\ upc' = "cycleB"
                  /\ UNCHANGED <<status, shown>>
    /\ UNCHANGED <<chapter, cycle, api_key, local_score, scoreVars, helperVars>>

ReplyB ==
    /\ upc = "cycleB"
    /\ \E r \in Replies \cup {RaisedReply} :
         LET p == B_to_C_payload(ailog[1].reply, r)
         IN  IF r = RaisedReply \/ p.raises
             THEN /\ ailog' = Answered(r)
                  /\ status' = status_update(TRUE)
                  /\ upc' = "idle"
                  /\ shown' = "stage0"
             ELSE /\ ailog' = Append(Answered(r), AICall("cycle", "C", p))
                  /\ upc' = "cycleC"
                  /\ UNCHANGED <<status, shown>>
    /\ UNCHANGED <<chapter, cycle, api_key, local_score, scoreVars, helperVars>>

ReplyC ==
    /\ upc = "cycleC"
    /\ \E r \in PlainReplies \cup {RaisedReply} :
         /\ ailog' = Answered(r)
         /\ status' = status_update(r = RaisedReply)
         /\ cycle' = IF r = RaisedReply THEN cycle
                     ELSE [A |-> ailog[1].reply, B |-> ailog[2].reply, C |-> r,
                           C_product |-> "carbonated", researcher_formula |-> TRUE,
                           stage0 |-> TRUE]
    /\ upc' = "idle"
    /\ shown' = "stage0"
    /\ UNCHANGED <<chapter, api_key, local_score, scoreVars, helperVars>>

OpenA ==
    /\ upc = "idle"
    /\ upc' = "idle"
    /\ chapter' = "01"
    /\ shown' = IF ~HasA THEN "warning"
                ELSE IF IsDict(cycle.A) THEN "A" ELSE "aborted"
    /\ status' = "none"
    /\ ailog' = <<>>
    /\ local_score' = NoResult
    /\ UNCHANGED <<cycle, api_key, scoreVars, helperVars>>

OpenB ==
    /\ upc = "idle"
    /\ upc' = "idle"
    /\ chapter' = "02"
    /\ status' = "none"
    /\ ailog' = <<>>
    /\ IF ~HasB
       THEN /\ shown' = "warning"
            /\ local_score' = NoResult
       ELSE IF ~IsDict(cycle.B)
       THEN /\ shown' = "aborted"
            /\ local_score' = NoResult
       ELSE /\ local_score' \in LocalScores(cycle.B)
            /\ shown' = IF cycle.B.scores.kind = "nondict" THEN "aborted" ELSE "B"
    /\ UNCHANGED <<cycle, api_key, scoreVars, helperVars>>

OpenC ==
    /\ upc = "idle"
    /\ upc' = "idle"
    /\ chapter' = "03"
    /\ status' = "none"
    /\ ailog' = <<>>
    /\ local_score' = NoResult
    /\ IF ~HasAB
       THEN /\ shown' = "warning"
            /\ UNCHANGED cycle
       ELSE /\ \E pt \in ProductTypes : cycle' = Sliders(cycle, pt)
            /\ shown' = TablePage(cycle.C)
    /\ UNCHANGED <<api_key, scoreVars, helperVars>>

PressGenC ==
    /\ upc = "idle"
    /\ chapter = "03"
    /\ HasAB
    /\ chapter' = "03"
    /\ local_score' = NoResult
    /\ \E pt \in ProductTypes : cycle' = Sliders(cycle, pt)
    /\ LET p == B_to_C_payload(cycle.A, cycle.B)
       IN  IF ~api_key
           THEN /\ shown' = TablePage(cycle.C)
                /\ status' = "none"
                /\ ailog' = <<>>
                /\ upc' = "idle"
           ELSE IF p.raises
           THEN /\ shown' = TablePage(cycle.C)
                /\ status' = status_update(TRUE)
                /\ ailog' = <<>>
                /\ upc' = "idle"
           ELSE /\ shown' = "status"
                /\ status' = "running"
                /\ ailog' = <<AICall("genC", "C", p)>>
                /\ upc' = "genC"
    /\ UNCHANGED <<api_key, scoreVars, helperVars>>

ReplyGenC ==
    /\ upc = "genC"
    /\ \E r \in PlainReplies \cup {RaisedReply} :
         /\ ailog' = Answered(r)
         /\ status' = status_update(r = RaisedReply)
         /\ cycle' = IF r = RaisedReply THEN cycle ELSE [cycle EXCEPT !.C = r]
         /\ shown' = TablePage(cycle'.C)
    /\ upc' = "idle"
    /\ UNCHANGED <<chapter, api_key, local_score, scoreVars, helperVars>>

PressRecAB ==
    /\ upc = "idle"
    /\ chapter = "03"
    /\ HasAB
    /\ TablePage(cycle.C) = "C"
    /\ chapter' = "03"
    /\ local_score' = NoResult
    /\ \E pt \in ProductTypes : cycle' = Sliders(cycle, pt)
    /\ LET p == C_recommend_from_researcher_payload(cycle.A, cycle.B)
       IN  IF ~api_key
           THEN /\ shown' = "C"
                /\ status' = "none"
                /\ ailog' = <<>>
                /\ upc' = "idle"
           ELSE IF p.raises
           THEN /\ shown' = "C"
                /\ status' = status_update(TRUE)
                /\ ailog' = <<>>
                /\ upc' = "idle"
           ELSE /\ shown' = "status"
                /\ status' = "running"
                /\ ailog' = <<AICall("recAB", "C", p)>>
                /\ upc' = "recAB"
    /\ UNCHANGED <<api_key, scoreVars, helperVars>>

\* lines 826-832: rec.get raises on a reply that is not a dict; otherwise the
\* stored C (or a new dict) takes the reply's sensory_A, sensory_B, commentary
ReplyRecAB ==
    /\ upc = "recAB"
    /\ \E r \in PlainReplies \cup {RaisedReply} :
         LET raised == r = RaisedReply \/ ~IsDict(r) \/ ~TablePage(cycle.C) = "C"
         IN  /\ ailog' = Answered(r)
             /\ status' = status_update(raised)
             /\ cycle' = IF raised THEN cycle
                         ELSE [cycle EXCEPT !.C =
                                 JsonObject(IF r.kind = "dict" THEN r.tag ELSE cycle.C.tag,
                                            NoScores)]
    /\ upc' = "idle"
    /\ shown' = "C"
    /\ UNCHANGED <<chapter, api_key, local_score, scoreVars, helperVars>>

Open04 ==
    /\ upc = "idle"
    /\ upc' = "idle"
    /\ chapter' = "04"
    /\ shown' = IF cycle = NoCycle THEN "warning" ELSE "summary"
    /\ status' = "none"
    /\ ailog' = <<>>
    /\ local_score' = NoResult
    /\ UNCHANGED <<cycle, api_key, scoreVars, helperVars>>

NextApp ==
    \/ Open00
    \/ PressCycle
    \/ ReplyA
    \/ ReplyB
    \/ ReplyC
    \/ OpenA
    \/ OpenB
    \/ OpenC
    \/ PressGenC
    \/ ReplyGenC
    \/ PressRecAB
    \/ ReplyRecAB
    \/ Open04

SpecApp == InitApp /\ [][NextApp]_vars

----------------------------------------------------------------------------
(* Properties *)

Entered == pc \in {"validated", "summed", "returned", "raised"}
ByDefault == wparam = {}
Val(i) == args[i].v

\* what the text of the claims calls a non-integer, and an integer out of range
NonInteger(x) == x.t = "float"
OutOfRange(x) == x.t # "float" /\ (x.v < 1 \/ x.v > 5)
Invalid(x) == NonInteger(x) \/ OutOfRange(x)

\* C1: with the default weights every returned score is exactly
\* (20*cf + 20*cs + 15*m + 15*ca + 20*r)/100, and 3,3,4,4,4 gives 3.20
C1_WeightedSum ==
    (pc = "returned" /\ ByDefault) =>
        /\ result.kind = "score"
        /\ result.v = 20 * Val(1) + 20 * Val(2) + 15 * Val(3) + 15 * Val(4) + 20 * Val(5)
        /\ (args = Ints(3, 3, 4, 4, 4) => result.v = 320)

\* the self-test's call has returned, from a sum that was not exact
C1_Witness ==
    /\ pc = "returned" /\ ByDefault
    /\ args = Ints(3, 3, 4, 4, 4)
    /\ raw # 32000
    /\ result.v = 320

\* C2: GO when score >= go_threshold, else HOLD when score >= hold_threshold,
\* else DROP, for the default and for overriding thresholds; with the defaults
\* 3.20 is GO, 3.00 is HOLD, 2.99 and 2.90 are DROP
C2_Classify ==
    dcall # NoDecision =>
        /\ (dcall.score >= dcall.go => dcall.out = "GO")
        /\ (dcall.score < dcall.go /\ dcall.score >= dcall.hold => dcall.out = "HOLD")
        /\ (dcall.score < dcall.go /\ dcall.score < dcall.hold => dcall.out = "DROP")
        /\ (dcall.go = 320 /\ dcall.hold = 300 =>
                /\ (dcall.score = 320 => dcall.out = "GO")
                /\ (dcall.score = 300 => dcall.out = "HOLD")
                /\ (dcall.score \in {299, 290} => dcall.out = "DROP"))

\* 3.00 has been classified against the default thresholds
C2_Witness ==
    /\ dcall.score = 300 /\ dcall.go = 320 /\ dcall.hold = 300
    /\ dcall.out = "HOLD"

\* C3: a call in which any rating, at any position, is 0, is 6 or is not an
\* integer raises and produces no score
C3_Rejects ==
    (Entered /\ \E i \in 1..5 : NonInteger(args[i]) \/ Val(i) = 0 \/ Val(i) = 6) =>
        /\ pc = "raised"
        /\ result.kind \in {"TypeError", "ValueError"}
        /\ raw = 0

\* the float 3.0 in the last position, after four valid ratings, was rejected
C3_Witness ==
    /\ pc = "raised"
    /\ \A i \in 1..4 : ~Invalid(args[i])
    /\ args[5] = PyFloat(3)

\* C4: the error is about the first invalid rating in parameter order; it is
\* the wrong-type error when that rating is not an integer and the
\* out-of-range error when it is an integer outside [1,5]; there is no other
C4_ErrorKinds ==
    pc = "raised" =>
        /\ result.kind \in {"TypeError", "ValueError"}
        /\ \E k \in 1..5 :
             /\ Invalid(args[k])
             /\ \A j \in 1..(k - 1) : ~Invalid(args[j])
             /\ result.name = RatingNames[k]
             /\ (NonInteger(args[k]) => result.kind = "TypeError")
             /\ (OutOfRange(args[k]) => result.kind = "ValueError")

\* a float that is also out of range was reported as the wrong type, with an
\* out-of-range integer behind it
C4_Witness ==
    /\ pc = "raised"
    /\ ~Invalid(args[1])
    /\ args[2] = PyFloat(MaxRating + Probe)
    /\ args[3] = PyInt(0)
    /\ result = Raised("TypeError", "cost_stability")

\* C5: with the default weights every returned score lies in [0.90, 4.50]
C5_Range ==
    (pc = "returned" /\ ByDefault) => (result.v >= 90 /\ result.v <= 450)

\* the lowest score came out of a sum that fell below 0.90 before rounding
C5_Witness ==
    /\ pc = "returned" /\ ByDefault
    /\ raw < 9000
    /\ result.v = 90

\* C6: the default weights are non-negative and sum to 0.90; 4.50 is returned
\* exactly when all five ratings are 5, and 0.90 exactly when all are 1
C6_WeightsAndExtremes ==
    /\ default_weights.company_fit >= 0
    /\ default_weights.cost_stability >= 0
    /\ default_weights.manufacturability >= 0
    /\ default_weights.customer_acceptance >= 0
    /\ default_weights.repurchase >= 0
    /\ default_weights.company_fit + default_weights.cost_stability
         + default_weights.manufacturability + default_weights.customer_acceptance
         + default_weights.repurchase = 90
    /\ (pc = "returned" /\ ByDefault) =>
          /\ (result.v = 450 <=> \A i \in 1..5 : Val(i) = 5)
          /\ (result.v = 90 <=> \A i \in 1..5 : Val(i) = 1)

\* all five ratings 5 returned 4.50
C6_Witness ==
    /\ pc = "returned" /\ ByDefault
    /\ args = Ints(5, 5, 5, 5, 5)
    /\ result.v = 450

\* the ratings of the current call with the one at position p raised by one
Raise(p) == [args EXCEPT ![p] = PyInt(args[p].v + 1)]

\* C7: with the same (non-negative) weights, the score returned for the
\* current ratings is at most any score the call returns with one rating raised
C7_Monotone ==
    pc = "returned" =>
        \A p \in 1..5 :
            Val(p) < 5 =>
                /\ Validate(Raise(p)).kind = "none"
                /\ \A t \in FloatSums(Raise(p), weights) : result.v <= Round2(t)

\* a call with caller-given weights returned, and raising the rating of
\* weight zero leaves room for the score to stay the same
C7_Witness ==
    /\ pc = "returned"
    /\ wparam # {}
    /\ weights.manufacturability = 0 /\ weights.company_fit > 0
    /\ Val(3) < 5
    /\ raw > ExactSum(args, weights)

\* C8: a completed call whose inputs are those of the first call of the run
\* has the first call's outcome, whatever calls came between
C8_HistoryIndependent ==
    (CallDone /\ first.args = args /\ first.wparam = wparam) =>
        result = first.result

\* a third call repeats the inputs of the first and has returned a score
C8_Witness ==
    /\ pc = "returned"
    /\ ncalls >= 3
    /\ first.args = args /\ first.wparam = wparam
    /\ result.kind = "score"

\* C9: an error leaves no sum, no score and no decision; the sum is computed
\* only after all five ratings passed validation; a decision made on a
\* returned score comes with that score, both valid
C9_NoPartialFailure ==
    /\ (result.kind \in {"TypeError", "ValueError"} =>
            pc = "raised" /\ raw = 0 /\ dcall = NoDecision)
    /\ (pc = "raised" => result.kind \in {"TypeError", "ValueError"})
    /\ (pc \in {"validated", "summed", "returned"} =>
            \A i \in 1..5 : ~Invalid(args[i]))
    /\ (pc = "returned" => result.kind = "score")
    /\ ((pc = "returned" /\ dcall # NoDecision) =>
            /\ dcall.score = result.v
            /\ dcall.out \in {"GO", "HOLD", "DROP"})

\* an evaluation produced the pair (3.00, HOLD)
C9_Witness ==
    /\ pc = "returned"
    /\ result = Returned(300)
    /\ dcall.score = 300 /\ dcall.out = "HOLD"

\* C10: every call of decision_from_score, also with hold_threshold above
\* go_threshold, returns one of GO, HOLD, DROP
C10_Total ==
    dcall # NoDecision => dcall.out \in {"GO", "HOLD", "DROP"}

\* a score below both thresholds was classified with hold above go
C10_Witness ==
    /\ dcall # NoDecision
    /\ dcall.hold > dcall.go
    /\ dcall.score < dcall.go
    /\ dcall.out = "DROP"

\* C11: from entry to return or raise a call changes neither its five
\* ratings nor its weights; the default weights object is never changed, and
\* every call that omits weights is bound to it with the fields of line 43-47
C11_NoSideEffects ==
    /\ [][(pc \in {"validated", "summed"}) =>
            (args' = args /\ wparam' = wparam /\ weights' = weights)]_vars
    /\ [][default_weights' = default_weights]_vars
    /\ []((Entered /\ ByDefault) => weights = BScoreWeights)

\* a later call that omitted weights returned, after an earlier call was made
\* with weights given
C11_Witness ==
    /\ pc = "returned"
    /\ ByDefault /\ weights = BScoreWeights
    /\ first.wparam # {}
    /\ ncalls >= 2

\* positions at which a line of the text starts, and the line starting there
LineStarts(t) == {1} \cup {i + 1 : i \in {j \in 1..Len(t) : t[j] = "\n"}}
LineAt(t, s) ==
    LET ends == {e \in s..(Len(t) + 1) : e = Len(t) + 1 \/ t[e] = "\n"}
    IN  SubSeq(t, s, (CHOOSE e \in ends : \A f \in ends : e <= f) - 1)
NonBlank(l) == \E i \in 1..Len(l) : l[i] # " "
NonBlankStarts(t) == {s \in LineStarts(t) : s <= Len(t) /\ NonBlank(LineAt(t, s))}

\* o is line l cleaned: l is blanks, then possibly markers and blanks, then o,
\* then blanks; o starts and ends with a non-blank; a marker run followed by
\* a blank is left at the start of o only where one was already removed
Cleaned(l, o) ==
    \E i \in 1..Len(l), j \in 1..Len(l) :
        /\ i <= j
        /\ o = SubSeq(l, i, j)
        /\ l[i] # " " /\ l[j] # " "
        /\ \A k \in (j + 1)..Len(l) : l[k] = " "
        /\ \/ /\ \A k \in 1..(i - 1) : l[k] = " "
              /\ ~\E m \in 1..Len(o), n \in 1..Len(o) :
                     /\ m < n
                     /\ \A k \in 1..m : o[k] \in {"-", "*"}
                     /\ \A k \in (m + 1)..n : o[k] = " "
           \/ \E b \in 1..(i - 1), c \in 1..(i - 1) :
                 /\ b <= c /\ c < i - 1
                 /\ \A k \in 1..(b - 1) : l[k] = " "
                 /\ \A k \in b..c : l[k] \in {"-", "*"}
                 /\ \A k \in (c + 1)..(i - 1) : l[k] = " "

\* C16: the result has one entry per non-blank line of the input, in order,
\* each entry being its line cleaned; no entry is empty; the empty text gives
\* the empty list
C16_SanitizeLines ==
    done =>
        /\ Len(out) = Cardinality(NonBlankStarts(inp))
        /\ \A k \in 1..Len(out) :
             /\ out[k] # <<>>
             /\ \E s \in NonBlankStarts(inp) :
                  /\ Cardinality({r \in NonBlankStarts(inp) : r <= s}) = k
                  /\ Cleaned(LineAt(inp, s), out[k])
        /\ (inp = <<>> => out = <<>>)

\* a bulleted line, a blank line and a starred line gave two entries
C16_Witness ==
    /\ done
    /\ inp = <<"-", " ", "a", "\n", "\n", "*", "a">>
    /\ out = << <<"a">>, <<"*", "a">> >>

\* the JSON objects lying in a text, as <<start, end>>, and the first of them
ObjectSpans(t) ==
    {sp \in (1..Len(t)) \X (1..Len(t)) : sp[1] < sp[2] /\ IsObject(SubSeq(t, sp[1], sp[2]))}
FirstObject(t) ==
    LET sp == CHOOSE a \in ObjectSpans(t) : \A b \in ObjectSpans(t) : a[1] <= b[1]
    IN  SubSeq(t, sp[1], sp[2])
\* the text is JSON objects with words of prose around and between them
ObjectsInProse(t) ==
    /\ ObjectSpans(t) # {}
    /\ \A i \in 1..Len(t) :
          t[i] = "x" \/ \E sp \in ObjectSpans(t) : sp[1] <= i /\ i <= sp[2]
HasBraceSpan(t) == \E i \in 1..Len(t), j \in 1..Len(t) : i < j /\ t[i] = "{" /\ t[j] = "}"

\* C15: a text that is valid JSON gives its value; a text that is not, but
\* holds JSON objects with prose around them, gives the first JSON object in
\* it; a text with no brace-delimited span fails with the first parse's error
C15_FirstJsonObject ==
    done =>
        /\ (IsObject(inp) => out = JsonValue({inp[i] : i \in 2..(Len(inp) - 1)}))
        /\ ((~IsObject(inp) /\ ObjectsInProse(inp)) =>
                out = JsonValue({FirstObject(inp)[i] : i \in 2..(Len(FirstObject(inp)) - 1)}))
        /\ (~HasBraceSpan(inp) => out = JsonError("first"))

Sources == {"standard", "researcher", "sensory_a", "sensory_b"}

\* C14: the table has one row per ingredient of the schema, in schema order
\* with water first; the water row reads "q.s." in all four formula columns
\* whatever the four formulas hold; the product name is in the water row and
\* the product-name cell of every other row is empty
C14_FormulaTable ==
    done =>
        /\ Len(out) = Len(ingredient_schema)
        /\ \A i \in 1..Len(out) : out[i].ingredient = ingredient_schema[i].label
        /\ ingredient_schema[1].key = "water"
        /\ \A c \in Sources : out[1][c] = Cell(0, "q.s.")
        /\ out[1].product_name = inp.product_name
        /\ \A i \in 2..Len(out) : out[i].product_name = ""

\* a named product whose standard formula lacks water, whose researcher
\* formula holds an amount of water and whose other rows are filled
C14_Witness ==
    /\ done
    /\ Len(out) = 9
    /\ inp.product_name # ""
    /\ "water" \notin DOMAIN inp.standard
    /\ "water" \in DOMAIN inp.researcher
    /\ inp.researcher["water"] = 125
    /\ out[3].researcher = Cell(12, "%")
    /\ out[9].sensory_a = Cell(400, " g/L")

ReplyReturned(e) == e.reply.kind \notin {"pending", "raised"}
PersonaOrder == <<"A", "B", "C">>

\* C12: the calls of a full cycle are A, B, C in that order; a call is made
\* only after every earlier one has returned (none after a failure); the B
\* call is given A's reply, the C call A's reply and B's reply
C12_PersonaOrder ==
    (ailog # <<>> /\ ailog[1].action = "cycle") =>
        /\ Len(ailog) <= Len(PersonaOrder)
        /\ \A i \in 1..Len(ailog) : ailog[i].persona = PersonaOrder[i]
        /\ \A i \in 1..(Len(ailog) - 1) : ReplyReturned(ailog[i])
        /\ Len(ailog) >= 2 =>
              /\ ailog[2].a_in = ailog[1].reply
              /\ ailog[2].b_in = Absent
        /\ Len(ailog) >= 3 =>
              /\ ailog[3].a_in = ailog[1].reply
              /\ ailog[3].b_in = ailog[2].reply

\* a full cycle whose three calls returned, A and B with different objects
C12_Witness ==
    /\ upc = "idle"
    /\ status = "complete"
    /\ Len(ailog) = 3
    /\ ailog[1].action = "cycle"
    /\ ailog[1].reply = JsonObject(2, NoScores)
    /\ ailog[2].reply = JsonObject(1, NoScores)
    /\ ailog[3].reply.kind = "dict"

Calls(action) == IF action = "cycle" THEN Len(PersonaOrder) ELSE 1
ActionEnded == upc = "idle" /\ ailog # <<>>
AllSucceeded ==
    /\ Len(ailog) = Calls(ailog[1].action)
    /\ \A i \in 1..Len(ailog) : ReplyReturned(ailog[i])
AnyRaised == \E i \in 1..Len(ailog) : ailog[i].reply.kind = "raised"

\* C13 as stated: the status is running while a call is in flight; an ended
\* action has status complete exactly when all its calls succeeded, error
\* when a call raised, and never running
C13_StatusAsStated ==
    /\ upc # "idle" => status = "running"
    /\ ActionEnded =>
          /\ status \in {"complete", "error"}
          /\ status = "complete" <=> AllSucceeded
          /\ AnyRaised => status = "error"

\* C13: the status is running while a call is in flight; an ended action has
\* status complete exactly when all its calls succeeded and, for the sensory
\* A/B re-recommendation, the reply was a JSON object; otherwise error, never
\* running; after a failure the run goes on to the rest of the page
C13_Status ==
    /\ upc # "idle" => (status = "running" /\ shown = "status")
    /\ ActionEnded =>
          /\ status \in {"complete", "error"}
          /\ status = "complete" <=>
                (AllSucceeded /\ (ailog[1].action = "recAB" => IsDict(ailog[1].reply)))
          /\ AnyRaised => status = "error"
          /\ shown \in {"stage0", "C", "aborted"}
          /\ shown = "aborted" => TablePage(cycle.C) = "aborted"

\* a re-recommendation whose only call returned a JSON array
C13_Witness ==
    /\ upc = "idle"
    /\ Len(ailog) = 1
    /\ ailog[1].action = "recAB"
    /\ ailog[1].reply = NonObject
    /\ status = "error"
    /\ shown = "C"

\* the value whose absence makes the page of chapter ch show the warning
Lacking(ch) ==
    \/ ch = "01" /\ ~Truthy(cycle.A)
    \/ ch = "02" /\ ~Truthy(cycle.B)
    \/ ch = "03" /\ ~(Truthy(cycle.A) /\ Truthy(cycle.B))

\* C17: a run of chapter A, B or C that lacks the value its page needs shows
\* the warning, makes no AI call and leaves the session state as it was; a
\* page of persona results is shown only after a full cycle has succeeded
C17_WarningOnly ==
    /\ [][Lacking(chapter') =>
            /\ shown' = "warning"
            /\ ailog' = <<>>
            /\ upc' = "idle"
            /\ cycle' = cycle]_vars
    /\ [](shown \in {"A", "B", "C"} => cycle.stage0)

\* chapter C opened after a cycle in which B's reply was the empty object
C17_Witness ==
    /\ chapter = "03"
    /\ shown = "warning"
    /\ Truthy(cycle.A)
    /\ cycle.B = EmptyObject
    /\ cycle.stage0

\* the ratings of the stored B, and the numbers they stand for (in tenths)
BRating(i) == cycle.B.scores.items[RatingNames[i]]
Convertible(x) == x.t \in {"missing", "int", "bool", "numstr", "jsonfloat"}
Tenths(x) == IF x.t = "jsonfloat" THEN x.v ELSE IF x.t = "missing" THEN 30 ELSE 10 * x.v
RatingOr3(i) == IF BRating(i) = Missing THEN PyInt(3) ELSE BRating(i)
Expected == [i \in 1..Len(RatingNames) |-> PyInt(int(RatingOr3(i)).v)]
BPage == chapter = "02" /\ Truthy(cycle.B)

\* C18 as stated: the local score is a number or omitted, never an error;
\* it is omitted when a rating is not convertible to an integer or lies
\* outside [1,5], and is otherwise the score with 3 for each missing rating
C18_LocalScoreAsStated ==
    BPage =>
        /\ local_score.kind \in {"None", "score"}
        /\ IF \/ cycle.B.scores.kind = "nondict"
              \/ \E i \in 1..Len(RatingNames) :
                    \/ ~Convertible(BRating(i))
                    \/ Tenths(BRating(i)) < 10 * MinRating
                    \/ Tenths(BRating(i)) > 10 * MaxRating
           THEN local_score = NoneScore
           ELSE local_score = Returned(Round2(ExactSum(Expected, BScoreWeights)))

\* C18: the local score is a number or omitted, never an error; it is
\* omitted when a rating is not convertible to an integer or its integer
\* (a fraction is cut off: 5.5 gives 5) lies outside [1,5], and is otherwise
\* the score of those integers with 3 for each missing rating
C18_LocalScore ==
    BPage =>
        /\ local_score.kind \in {"None", "score"}
        /\ IF \/ cycle.B.scores.kind = "nondict"
              \/ \E i \in 1..Len(RatingNames) :
                    \/ ~Convertible(BRating(i))
                    \/ Expected[i].v < MinRating
                    \/ Expected[i].v > MaxRating
           THEN local_score = NoneScore
           ELSE local_score = Returned(Round2(ExactSum(Expected, BScoreWeights)))

\* a B whose scores lack one rating: 4, 4, 3, 4, 4 gives 3.45
C18_Witness ==
    /\ BPage
    /\ shown = "B"
    /\ cycle.B.scores.kind = "dict"
    /\ BRating(3) = Missing
    /\ BRating(1) = PyInt(4)
    /\ local_score = Returned(345)

====
